---- MODULE Spec2Model ----
(***************************************************************************)
(* Model of the MTProxy log analyzer (analyze_logs.py): the log parser,    *)
(* the per-user sharing analysis, the suspicious score and the report.     *)
(*                                                                         *)
(* Timestamps are whole seconds since an arbitrary epoch.  A log line is a *)
(* record: kind "blank" (empty after strip), "other" (no connection        *)
(* pattern matches) or "conn" (one of the four patterns matches and yields *)
(* the groups timestamp_str, ip, secret).  stamp_ok tells whether strptime *)
(* accepts timestamp_str.  A secret is the pair of its first 8 characters  *)
(* (prefix) and the remaining 24 (rest).  A Python dict is a sequence of   *)
(* [key, val] records in insertion order.  A float quotient a / b is kept  *)
(* as the exact fraction [num |-> a, den |-> b].                           *)
(***************************************************************************)
EXTENDS Integers, Sequences, FiniteSets, TLC

VARIABLES
    config_users,         \* USERS entries of config.py, in file order
    user_connections,     \* self.user_connections (insertion-ordered dict)
    ip_to_user,           \* self.ip_to_user
    connection_patterns,  \* self.connection_patterns[username][hour]
    log_lines,            \* the argument of the last parse_logs call
    now_read,             \* what datetime.now() returned during that call
    prev_lines,           \* the arguments of the earlier parse_logs calls
    sharing_analysis,     \* the value returned by analyze_sharing_behavior
    printed,              \* what print_analysis wrote
    pc,                   \* position in main()
    sc_args,              \* arguments of the last calculate_suspicious_score call
    sc_score,             \* its return value
    sc_prev,              \* arguments and return value of the call before it
    sc_calls,             \* number of calculate_suspicious_score calls made
    monitor_user_ips,     \* MTProxyMonitor.user_ips: IP -> set of minute stamps
    suspicious_activity,  \* MTProxyMonitor.suspicious_activity
    active_connections,   \* remote_ip of each connection of the last poll
    clock,                \* wall clock, in ticks of one monitoring interval
    polls,                \* number of polls made by monitor_continuous
    config,               \* content of config.py as manage_users.py reads it
    last_call,            \* last add_user / remove_user call and its return value
    calls                 \* number of add_user / remove_user calls made

vars == <<config_users, user_connections, ip_to_user, connection_patterns,
          log_lines, now_read, prev_lines, sharing_analysis, printed, pc,
          sc_args, sc_score, sc_prev, sc_calls,
          monitor_user_ips, suspicious_activity, active_connections, clock, polls,
          config, last_call, calls>>

analyzer_vars == <<config_users, user_connections, ip_to_user, connection_patterns,
                   log_lines, now_read, prev_lines, sharing_analysis, printed, pc>>

score_vars == <<sc_args, sc_score, sc_prev, sc_calls>>

monitor_vars == <<monitor_user_ips, suspicious_activity, active_connections, clock, polls>>

users_vars == <<config, last_call, calls>>

----------------------------------------------------------------------------
(* Bounds *)

MaxLines == 3
MaxReportLines == 5
MaxRerunLines == 4
MaxUsers == 3
MaxUniqueIps == 3
MaxPairs == 3
MaxTotal == 26

----------------------------------------------------------------------------
(* Program constants *)

WINDOW == 300
IP_WEIGHT == 10
PAIR_WEIGHT == 50
FREQ_THRESHOLD == 20
FREQ_WEIGHT == 2
SCORE_CAP == 100
HIGH_ABOVE == 30
MEDIUM_ABOVE == 10

----------------------------------------------------------------------------
(* Insertion-ordered dict *)

Keys(d) == [i \in 1..Len(d) |-> d[i].key]

HasKey(d, k) == \E i \in 1..Len(d) : d[i].key = k

Get(d, k) == d[CHOOSE i \in 1..Len(d) : d[i].key = k].val

Put(d, k, v) ==
    IF HasKey(d, k)
    THEN [i \in 1..Len(d) |-> IF d[i].key = k THEN [key |-> k, val |-> v] ELSE d[i]]
    ELSE Append(d, [key |-> k, val |-> v])

RECURSIVE DictOf(_)
DictOf(pairs) ==
    IF pairs = <<>> THEN <<>>
    ELSE LET n == Len(pairs)
         IN Put(DictOf(SubSeq(pairs, 1, n - 1)), pairs[n][1], pairs[n][2])

----------------------------------------------------------------------------
(* Secrets, user names, config *)

SecretAlice == [prefix |-> "a1a1a1a1", rest |-> "r1"]
SecretBob == [prefix |-> "b2b2b2b2", rest |-> "r1"]
SecretX == [prefix |-> "c3c3c3c3", rest |-> "r1"]

\* Mutant of UnknownName: one placeholder for every unknown credential.
UnknownNameNoPrefix(prefix) ==
    CASE prefix = "a1a1a1a1" -> "unknown_c3c3c3c3"
      [] prefix = "b2b2b2b2" -> "unknown_c3c3c3c3"
      [] prefix = "c3c3c3c3" -> "unknown_c3c3c3c3"

UnknownName(prefix) ==
    CASE prefix = "a1a1a1a1" -> "unknown_a1a1a1a1"
      [] prefix = "b2b2b2b2" -> "unknown_b2b2b2b2"
      [] prefix = "c3c3c3c3" -> "unknown_c3c3c3c3"

NameOrder == <<"alice", "bob", "unknown_a1a1a1a1", "unknown_b2b2b2b2", "unknown_c3c3c3c3">>

NameRank(name) == CHOOSE i \in 1..Len(NameOrder) : NameOrder[i] = name

ConfigTwoUsers == << <<"alice", SecretAlice>>, <<"bob", SecretBob>> >>
ConfigNone == <<>>

load_user_secrets(entries) == DictOf(entries)

RECURSIVE InvertDict(_)
InvertDict(d) ==
    IF d = <<>> THEN <<>>
    ELSE LET n == Len(d)
         IN Put(InvertDict(SubSeq(d, 1, n - 1)), d[n].val, d[n].key)

secret_to_user(entries) == InvertDict(load_user_secrets(entries))

UsernameOf(entries, secret) ==
    LET m == secret_to_user(entries)
    IN IF HasKey(m, secret) THEN Get(m, secret) ELSE UnknownName(secret.prefix)

----------------------------------------------------------------------------
(* parse_logs *)

\* timestamp.hour
HourOf(timestamp) == (timestamp \div 3600) % 24

Bump(counts, k) ==
    [x \in DOMAIN counts \cup {k} |->
        IF x = k THEN (IF k \in DOMAIN counts THEN counts[k] + 1 ELSE 1)
        ELSE counts[x]]

SetItem(f, k, v) == [x \in DOMAIN f \cup {k} |-> IF x = k THEN v ELSE f[x]]

EmptyMap == [x \in {} |-> 0]

\* One iteration of the loop over log_lines; st holds the three attributes.
ParseLine(st, entries, line, now) ==
    IF line.kind = "blank" THEN st
    ELSE IF line.kind # "conn" THEN st
    ELSE
        LET timestamp == IF line.stamp_ok THEN line.stamp ELSE now
            username == UsernameOf(entries, line.secret)
            connection_info == [timestamp |-> timestamp, ip |-> line.ip,
                                secret |-> line.secret, username |-> username]
            old == IF HasKey(st.user_connections, username)
                   THEN Get(st.user_connections, username) ELSE <<>>
        IN [user_connections |->
                Put(st.user_connections, username, Append(old, connection_info)),
            ip_to_user |-> SetItem(st.ip_to_user, line.ip, username),
            connection_patterns |->
                Bump(st.connection_patterns, <<username, HourOf(timestamp)>>)]

RECURSIVE ParseAll(_, _, _, _)
ParseAll(st, entries, lines, now) ==
    IF lines = <<>> THEN st
    ELSE ParseAll(ParseLine(st, entries, Head(lines), now), entries, Tail(lines), now)

FreshAnalyzer ==
    [user_connections |-> <<>>, ip_to_user |-> EmptyMap, connection_patterns |-> EmptyMap]

----------------------------------------------------------------------------
(* analyze_sharing_behavior *)

Abs(x) == IF x < 0 THEN -x ELSE x

Min2(a, b) == IF a < b THEN a ELSE b

RECURSIVE InsertSorted(_, _)
InsertSorted(sorted, x) ==
    IF sorted = <<>> THEN <<x>>
    ELSE IF x < Head(sorted) THEN <<x>> \o sorted
    ELSE <<Head(sorted)>> \o InsertSorted(Tail(sorted), x)

\* Mutant of SortAsc: connection_times left in arrival order.
RECURSIVE NotSorted(_)
NotSorted(s) == IF s = <<>> THEN <<>> ELSE <<Head(s)>> \o NotSorted(Tail(s))

RECURSIVE SortAsc(_)
SortAsc(s) ==
    IF s = <<>> THEN <<>>
    ELSE InsertSorted(SortAsc(SubSeq(s, 1, Len(s) - 1)), s[Len(s)])

MinOf(s) == CHOOSE x \in {s[i] : i \in 1..Len(s)} : \A j \in 1..Len(s) : x <= s[j]

\* Mutant of MaxOf: last_seen taken with min.
MaxOfTakesMin(s) == CHOOSE x \in {s[i] : i \in 1..Len(s)} : \A j \in 1..Len(s) : x <= s[j]

MaxOf(s) == CHOOSE x \in {s[i] : i \in 1..Len(s)} : \A j \in 1..Len(s) : x >= s[j]

\* Mutants of calculate_suspicious_score.
score_ip_threshold_off(unique_ips, simultaneous_ips, total_connections) ==
    LET s1 == IF unique_ips >= 1 THEN unique_ips * IP_WEIGHT ELSE 0
        s2 == s1 + simultaneous_ips * PAIR_WEIGHT
        s3 == IF total_connections > FREQ_THRESHOLD
              THEN s2 + (total_connections - FREQ_THRESHOLD) * FREQ_WEIGHT
              ELSE s2
    IN IF s3 < SCORE_CAP THEN s3 ELSE SCORE_CAP

score_uncapped(unique_ips, simultaneous_ips, total_connections) ==
    LET s1 == IF unique_ips > 1 THEN unique_ips * IP_WEIGHT ELSE 0
        s2 == s1 + simultaneous_ips * PAIR_WEIGHT
    IN IF total_connections > FREQ_THRESHOLD
       THEN s2 + (total_connections - FREQ_THRESHOLD) * FREQ_WEIGHT
       ELSE s2

score_frequency_assigned(unique_ips, simultaneous_ips, total_connections) ==
    LET s1 == IF unique_ips > 1 THEN unique_ips * IP_WEIGHT ELSE 0
        s2 == s1 + simultaneous_ips * PAIR_WEIGHT
        s3 == IF total_connections > FREQ_THRESHOLD
              THEN (total_connections - FREQ_THRESHOLD) * FREQ_WEIGHT
              ELSE s2
    IN IF s3 < SCORE_CAP THEN s3 ELSE SCORE_CAP

calculate_suspicious_score(unique_ips, simultaneous_ips, total_connections) ==
    LET s1 == IF unique_ips > 1 THEN unique_ips * IP_WEIGHT ELSE 0
        s2 == s1 + simultaneous_ips * PAIR_WEIGHT
        s3 == IF total_connections > FREQ_THRESHOLD
              THEN s2 + (total_connections - FREQ_THRESHOLD) * FREQ_WEIGHT
              ELSE s2
    IN Min2(s3, SCORE_CAP)

\* Mutant of SimultaneousPairs: the window closed at 300 seconds.
SimultaneousPairsInclusive(connections) ==
    {p \in (1..Len(connections)) \X (1..Len(connections)) :
        /\ p[1] < p[2]
        /\ Abs(connections[p[1]].timestamp - connections[p[2]].timestamp) <= WINDOW
        /\ connections[p[1]].ip # connections[p[2]].ip}

\* The (i, j) index pairs the nested loop appends to simultaneous_ips.
SimultaneousPairs(connections) ==
    {p \in (1..Len(connections)) \X (1..Len(connections)) :
        /\ p[1] < p[2]
        /\ Abs(connections[p[1]].timestamp - connections[p[2]].timestamp) < WINDOW
        /\ connections[p[1]].ip # connections[p[2]].ip}

AvgInterval(connection_times) ==
    IF Len(connection_times) > 1
    THEN LET total_time == connection_times[Len(connection_times)] - connection_times[1]
         IN IF total_time > 0
            THEN [num |-> total_time, den |-> Len(connection_times)]
            ELSE [num |-> 0, den |-> 1]
    ELSE [num |-> 0, den |-> 1]

AnalyzeUser(connections) ==
    LET user_ips == {connections[i].ip : i \in 1..Len(connections)}
        connection_times == SortAsc([i \in 1..Len(connections) |-> connections[i].timestamp])
        simultaneous_ips == SimultaneousPairs(connections)
    IN [total_connections |-> Len(connections),
        unique_ips |-> Cardinality(user_ips),
        ips |-> user_ips,
        simultaneous_different_ips |-> Cardinality(simultaneous_ips),
        avg_connection_interval |-> AvgInterval(connection_times),
        suspicious_score |-> calculate_suspicious_score(
            Cardinality(user_ips), Cardinality(simultaneous_ips), Len(connections)),
        first_seen |-> MinOf(connection_times),
        last_seen |-> MaxOf(connection_times)]

\* Mutant of SkipUser: only identities without any event are skipped.
SkipUserIfEmpty(connections) == Len(connections) < 1

SkipUser(connections) == Len(connections) < 2

Analyzable(item) == ~SkipUser(item.val)

\* The loop over user_connections.items(): the keys are distinct, so every
\* user that is not skipped adds one entry, in the order of the keys.
AnalyzeAll(uc) ==
    LET kept == SelectSeq(uc, Analyzable)
    IN [i \in 1..Len(kept) |-> [key |-> kept[i].key, val |-> AnalyzeUser(kept[i].val)]]

----------------------------------------------------------------------------
(* print_analysis *)

\* Mutant of RiskTier: the thresholds themselves count as the higher tier.
RiskTierInclusive(score) ==
    IF score >= HIGH_ABOVE THEN "HIGH"
    ELSE IF score >= MEDIUM_ABOVE THEN "MEDIUM"
    ELSE "LOW"

RiskTier(score) ==
    IF score > HIGH_ABOVE THEN "HIGH"
    ELSE IF score > MEDIUM_ABOVE THEN "MEDIUM"
    ELSE "LOW"

\* Mutant of InsertByScore: an equal score goes in front.
RECURSIVE InsertByScoreInFront(_, _)
InsertByScoreInFront(sorted, item) ==
    IF sorted = <<>> THEN <<item>>
    ELSE IF item.val.suspicious_score >= Head(sorted).val.suspicious_score
         THEN <<item>> \o sorted
         ELSE <<Head(sorted)>> \o InsertByScoreInFront(Tail(sorted), item)

\* sorted(..., key=score, reverse=True): stable, equal keys keep their order.
RECURSIVE InsertByScore(_, _)
InsertByScore(sorted, item) ==
    IF sorted = <<>> THEN <<item>>
    ELSE IF item.val.suspicious_score > Head(sorted).val.suspicious_score
         THEN <<item>> \o sorted
         ELSE <<Head(sorted)>> \o InsertByScore(Tail(sorted), item)

RECURSIVE SortedUsers(_)
SortedUsers(d) ==
    IF d = <<>> THEN <<>>
    ELSE InsertByScore(SortedUsers(SubSeq(d, 1, Len(d) - 1)), d[Len(d)])

IsHigh(data) == data.suspicious_score > HIGH_ABOVE

IsMedium(data) == MEDIUM_ABOVE < data.suspicious_score /\ data.suspicious_score <= HIGH_ABOVE

Summary(d) ==
    LET total_users == Len(d)
        high_risk == Cardinality({i \in 1..Len(d) : IsHigh(d[i].val)})
        medium_risk == Cardinality({i \in 1..Len(d) : IsMedium(d[i].val)})
    IN [total_users |-> total_users, high_risk |-> high_risk,
        medium_risk |-> medium_risk, low_risk |-> total_users - high_risk - medium_risk]

PrintedRow(item) ==
    [username |-> item.key,
     total_connections |-> item.val.total_connections,
     unique_ips |-> item.val.unique_ips,
     suspicious_score |-> item.val.suspicious_score,
     risk |-> RiskTier(item.val.suspicious_score)]

Report(d) ==
    IF d = <<>> THEN [rows |-> <<>>, summary |-> <<>>]
    ELSE LET sorted_users == SortedUsers(d)
         IN [rows |-> [i \in 1..Len(sorted_users) |-> PrintedRow(sorted_users[i])],
             summary |-> <<Summary(d)>>]

NothingPrinted == [rows |-> <<>>, summary |-> <<>>]

----------------------------------------------------------------------------
(* Inputs *)

Times == {0, 299, 300}
IPs == {"1.1.1.1", "2.2.2.2", "3.3.3.3"}

ConnLine(stamp, ip, secret) ==
    [kind |-> "conn", stamp_ok |-> TRUE, stamp |-> stamp, ip |-> ip, secret |-> secret]

\* timestamp_str has the digits the pattern asks for but names no date.
BadStampLine(ip, secret) ==
    [kind |-> "conn", stamp_ok |-> FALSE, stamp |-> 0, ip |-> ip, secret |-> secret]

BlankLine == [kind |-> "blank"]
OtherLine == [kind |-> "other"]

Lines ==
    {ConnLine(t, ip, SecretAlice) : t \in Times, ip \in IPs}
    \cup {ConnLine(0, "1.1.1.1", SecretBob), ConnLine(0, "2.2.2.2", SecretX),
          BadStampLine("2.2.2.2", SecretAlice), BlankLine, OtherLine}

ReportLines ==
    {ConnLine(t, ip, SecretAlice) : t \in {0, 300}, ip \in {"1.1.1.1", "2.2.2.2"}}
    \cup {ConnLine(0, ip, SecretBob) : ip \in {"1.1.1.1", "2.2.2.2"}}

RerunLines ==
    {ConnLine(0, "1.1.1.1", SecretAlice), ConnLine(0, "2.2.2.2", SecretAlice),
     ConnLine(0, "1.1.1.1", SecretBob), BlankLine}

Batches(L, n) == UNION {[1..k -> L] : k \in 1..n}

HasBadStamp(lines) ==
    \E i \in 1..Len(lines) : lines[i].kind = "conn" /\ ~lines[i].stamp_ok

\* datetime.now() is read only where strptime raises.
NowChoices(lines) == IF HasBadStamp(lines) THEN Times ELSE {0}

RECURSIVE TotalLen(_)
TotalLen(batches) ==
    IF batches = <<>> THEN 0 ELSE Len(Head(batches)) + TotalLen(Tail(batches))

LinesSoFar == TotalLen(prev_lines) + Len(log_lines)

----------------------------------------------------------------------------
(* monitor.py: MTProxyMonitor *)

MaxPolls == 3

MULTIPLE_ABOVE == 3
FREQUENT_ABOVE == 10

\* One tick is one monitoring interval of 30 seconds.
TICKS_PER_MINUTE == 2

\* current_time.strftime('%Y-%m-%d %H:%M'): the instant cut to its minute.
MinuteOf(now) == now \div TICKS_PER_MINUTE

MonitorIPs == {"1.1.1.1", "2.2.2.2"}

\* What get_active_connections returns, one remote_ip per connection.
NetstatConnections ==
    { <<>>,
      <<"1.1.1.1">>,
      <<"1.1.1.1", "1.1.1.1", "1.1.1.1">>,
      <<"1.1.1.1", "1.1.1.1", "1.1.1.1", "1.1.1.1">>,
      <<"2.2.2.2", "1.1.1.1">>,
      <<"2.2.2.2", "1.1.1.1", "2.2.2.2", "2.2.2.2", "2.2.2.2">> }

\* What get_process_connections returns.
ProcessConnections == { <<>>, <<"2.2.2.2", "2.2.2.2">> }

\* The sleep of one loop turn, with or without a full extra interval of delay.
SleepTicks == {1, 2}

FreshMonitor ==
    [user_ips |-> [ip \in MonitorIPs |-> {}], suspicious_activity |-> <<>>]

\* Keys of ip_connections, in the order the loop first met them.
RECURSIVE IpOrder(_)
IpOrder(connections) ==
    IF connections = <<>> THEN <<>>
    ELSE LET front == IpOrder(SubSeq(connections, 1, Len(connections) - 1))
             ip == connections[Len(connections)]
         IN IF \E i \in 1..Len(front) : front[i] = ip THEN front ELSE Append(front, ip)

IpCount(connections, ip) ==
    Cardinality({i \in 1..Len(connections) : connections[i] = ip})

\* Mutant of MultipleConnections: three connections already count.
MultipleConnectionsFromThree(count) == count >= MULTIPLE_ABOVE

MultipleConnections(count) == count > MULTIPLE_ABOVE

Detected(ip, count, unique_times, current_time) ==
    (IF MultipleConnections(count)
     THEN << [type |-> "multiple_connections", ip |-> ip, count |-> count,
              timestamp |-> current_time] >>
     ELSE <<>>)
    \o
    (IF unique_times > FREQUENT_ABOVE
     THEN << [type |-> "frequent_connections", ip |-> ip,
              connection_times |-> unique_times, timestamp |-> current_time] >>
     ELSE <<>>)

RECURSIVE DetectAll(_, _, _, _)
DetectAll(order, connections, ips, current_time) ==
    IF order = <<>> THEN <<>>
    ELSE Detected(Head(order), IpCount(connections, Head(order)),
                  Cardinality(ips[Head(order)]), current_time)
         \o DetectAll(Tail(order), connections, ips, current_time)

analyze_user_behavior(st, connections, current_time) ==
    LET seen == {connections[i] : i \in 1..Len(connections)}
        ips == [ip \in MonitorIPs |->
                   IF ip \in seen
                   THEN st.user_ips[ip] \cup {MinuteOf(current_time)}
                   ELSE st.user_ips[ip]]
    IN [user_ips |-> ips,
        suspicious_activity |->
            st.suspicious_activity
            \o DetectAll(IpOrder(connections), connections, ips, current_time)]

\* The monitor after k turns of the loop, a minute apart, each of which saw one
\* connection from 1.1.1.1.
RECURSIVE QuietPolls(_)
QuietPolls(k) ==
    IF k = 0 THEN FreshMonitor
    ELSE analyze_user_behavior(QuietPolls(k - 1), <<"1.1.1.1">>,
                               TICKS_PER_MINUTE * (k - 1))

\* The loop is picked up after 0, 9 or 10 quiet turns.
QuietTurns == {0, 9, 10}

InitMonitor(turns) ==
    \E k \in turns :
        /\ monitor_user_ips = QuietPolls(k).user_ips
        /\ suspicious_activity = QuietPolls(k).suspicious_activity
        /\ active_connections = IF k = 0 THEN <<>> ELSE <<"1.1.1.1">>
        /\ clock = TICKS_PER_MINUTE * k
        /\ polls = 0

\* One turn of the loop of monitor_continuous: get_connection_stats, which
\* calls analyze_user_behavior, then print_stats (reads only), then sleep.
GetConnectionStats ==
    /\ polls < MaxPolls
    /\ \E connections \in NetstatConnections,
          process_connections \in ProcessConnections,
          slept \in SleepTicks :
          LET active == IF process_connections # <<>>
                        THEN process_connections ELSE connections
              st == analyze_user_behavior(
                        [user_ips |-> monitor_user_ips,
                         suspicious_activity |-> suspicious_activity],
                        active, clock)
          IN /\ monitor_user_ips' = st.user_ips
             /\ suspicious_activity' = st.suspicious_activity
             /\ active_connections' = active
             /\ clock' = clock + slept
    /\ polls' = polls + 1
    /\ UNCHANGED <<analyzer_vars, score_vars, users_vars>>

----------------------------------------------------------------------------
(* manage_users.py *)

MaxCalls == 3

LF == "\n"

\* A username is the sequence of its characters.
Chars == {"a", "b", "!", LF}

\* The characters of this alphabet that the class [a-zA-Z0-9_-] holds.
ClassChars == {"a", "b"}

\* The usernames tried: every string of one or two of these characters.
Usernames ==
    UNION {[1..n -> Chars] : n \in {1, 2}}

\* generate_secret()
Secrets == {"s1", "s2"}

\* re.match(r'^[a-zA-Z0-9_-]+$', username): one or more characters of the
\* class, then the end of the string; $ also matches just before a newline
\* that ends the string.
ValidUsername(username) ==
    LET n == Len(username)
        body == IF n > 1 /\ username[n] = LF THEN SubSeq(username, 1, n - 1)
                ELSE username
    IN /\ Len(body) >= 1
       /\ \A i \in 1..Len(body) : body[i] \in ClassChars

\* config.py: whether it has a USERS = { section, the entries of that section
\* in file order, and the quoted keys the file has outside it (those of MODES).
ConfigPy(has_users, users) ==
    [has_users |-> has_users, users |-> users, other_keys |-> {<<"b", "b">>}]

UserEntry(username, secret) == [username |-> username, secret |-> secret]

ConfigOneUser == ConfigPy(TRUE, << UserEntry(<<"a">>, "s1") >>)

Configs ==
    { ConfigPy(TRUE, <<>>),
      ConfigOneUser,
      ConfigPy(TRUE, << UserEntry(<<"a">>, "s1"), UserEntry(<<"b">>, "s2") >>),
      ConfigPy(FALSE, <<>>) }

\* f'"{username}":' in content
KeyInContent(content, username) ==
    \/ \E i \in 1..Len(content.users) : content.users[i].username = username
    \/ username \in content.other_keys

add_user(content, username, secret) ==
    IF ~ValidUsername(username) THEN [result |-> FALSE, content |-> content]
    ELSE IF KeyInContent(content, username) THEN [result |-> FALSE, content |-> content]
    ELSE IF ~content.has_users THEN [result |-> FALSE, content |-> content]
    ELSE [result |-> TRUE,
          content |-> [content EXCEPT
                          !.users = Append(@, UserEntry(username, secret))]]

IsNot(entry, username) == entry.username # username

remove_user(content, username) ==
    IF ~\E i \in 1..Len(content.users) : content.users[i].username = username
    THEN [result |-> FALSE, content |-> content]
    ELSE [result |-> TRUE,
          content |-> [content EXCEPT
                          !.users = SelectSeq(@, LAMBDA e : IsNot(e, username))]]

NoCall == [op |-> "none", username |-> <<>>, result |-> FALSE]

InitUsers(configs) ==
    /\ config \in configs
    /\ last_call = NoCall
    /\ calls = 0

AddUser ==
    /\ calls < MaxCalls
    /\ \E username \in Usernames, secret \in Secrets :
          LET r == add_user(config, username, secret)
          IN /\ config' = r.content
             /\ last_call' = [op |-> "add_user", username |-> username,
                              result |-> r.result]
    /\ calls' = calls + 1
    /\ UNCHANGED <<analyzer_vars, score_vars, monitor_vars>>

RemoveUser ==
    /\ calls < MaxCalls
    /\ \E username \in Usernames :
          LET r == remove_user(config, username)
          IN /\ config' = r.content
             /\ last_call' = [op |-> "remove_user", username |-> username,
                              result |-> r.result]
    /\ calls' = calls + 1
    /\ UNCHANGED <<analyzer_vars, score_vars, monitor_vars>>

InitOtherPrograms == InitMonitor({0}) /\ InitUsers({ConfigOneUser})

----------------------------------------------------------------------------
(* State machine: main() of analyze_logs.py *)

InitAnalyzer(configs) ==
    /\ config_users \in configs
    /\ user_connections = <<>>
    /\ ip_to_user = EmptyMap
    /\ connection_patterns = EmptyMap
    /\ log_lines = <<>>
    /\ now_read = 0
    /\ prev_lines = <<>>
    /\ sharing_analysis = <<>>
    /\ printed = NothingPrinted
    /\ pc = "start"

InitScore ==
    /\ sc_args = [unique_ips |-> 0, simultaneous_ips |-> 0, total_connections |-> 0]
    /\ sc_score = 0
    /\ sc_prev = [args |-> sc_args, score |-> 0]
    /\ sc_calls = 0

\* Mutant of SelfState: parse_logs starts from emptied attributes.
SelfStateCleared == FreshAnalyzer

\* The analyzer's attributes as parse_logs finds them.
SelfState ==
    [user_connections |-> user_connections, ip_to_user |-> ip_to_user,
     connection_patterns |-> connection_patterns]

\* analyzer.parse_logs(log_lines); main() gets here only with a non-empty
\* log_lines.  batches is the set the input is drawn from.
ParseLogs(batches, again) ==
    /\ pc = "start" \/ (again /\ pc = "printed")
    /\ \E lines \in batches :
       \E now \in NowChoices(lines) :
          LET st == ParseAll(SelfState, config_users, lines, now)
          IN /\ user_connections' = st.user_connections
             /\ ip_to_user' = st.ip_to_user
             /\ connection_patterns' = st.connection_patterns
             /\ log_lines' = lines
             /\ now_read' = now
             /\ prev_lines' = IF pc = "start" THEN <<>> ELSE Append(prev_lines, log_lines)
    /\ pc' = "parsed"
    /\ UNCHANGED <<config_users, sharing_analysis, printed, score_vars, monitor_vars, users_vars>>

\* sharing_analysis = analyzer.analyze_sharing_behavior()
AnalyzeSharingBehavior ==
    /\ pc = "parsed"
    /\ sharing_analysis' = AnalyzeAll(user_connections)
    /\ pc' = "analyzed"
    /\ UNCHANGED <<config_users, user_connections, ip_to_user, connection_patterns,
                   log_lines, now_read, prev_lines, printed, score_vars, monitor_vars, users_vars>>

\* analyzer.print_analysis(sharing_analysis)
PrintAnalysis ==
    /\ pc = "analyzed"
    /\ printed' = Report(sharing_analysis)
    /\ pc' = "printed"
    /\ UNCHANGED <<config_users, user_connections, ip_to_user, connection_patterns,
                   log_lines, now_read, prev_lines, sharing_analysis, score_vars, monitor_vars, users_vars>>

ParseLogLines == ParseLogs(Batches(Lines, MaxLines), FALSE)

Init == InitAnalyzer({ConfigTwoUsers, ConfigNone}) /\ InitScore /\ InitOtherPrograms

Next == ParseLogLines \/ AnalyzeSharingBehavior \/ PrintAnalysis

Spec == Init /\ [][Next]_vars

----------------------------------------------------------------------------
(* main() on logs of two configured users *)

ParseReportLines == ParseLogs(Batches(ReportLines, MaxReportLines), FALSE)

InitReport == InitAnalyzer({ConfigTwoUsers}) /\ InitScore /\ InitOtherPrograms

NextReport == ParseReportLines \/ AnalyzeSharingBehavior \/ PrintAnalysis

SpecReport == InitReport /\ [][NextReport]_vars

----------------------------------------------------------------------------
(* The pipeline run again and again on one analyzer *)

ParseAgain == ParseLogs(Batches(RerunLines, MaxRerunLines - LinesSoFar), TRUE)

InitRerun == InitAnalyzer({ConfigTwoUsers}) /\ InitScore /\ InitOtherPrograms

NextRerun == ParseAgain \/ AnalyzeSharingBehavior \/ PrintAnalysis

SpecRerun == InitRerun /\ [][NextRerun]_vars

----------------------------------------------------------------------------------------------------------------------------------------
(* main() on logs that bring the scores onto the tier thresholds *)

\* n events of one IP, an hour apart.
Hourly(secret, n) == [k \in 1..n |-> ConnLine((k - 1) * 3600, "1.1.1.1", secret)]

TierCases ==
    {"one_event", "quiet_2", "quiet_25", "quiet_26", "two_ips_apart",
     "three_ips_apart", "busy_three_ips", "two_ips_together", "three_ips_together"}

CaseLines(secret, c) ==
    CASE c = "one_event" -> Hourly(secret, 1)
      [] c = "quiet_2" -> Hourly(secret, 2)
      [] c = "quiet_25" -> Hourly(secret, 25)
      [] c = "quiet_26" -> Hourly(secret, 26)
      [] c = "two_ips_apart" ->
            <<ConnLine(0, "1.1.1.1", secret), ConnLine(300, "2.2.2.2", secret)>>
      [] c = "three_ips_apart" ->
            <<ConnLine(0, "1.1.1.1", secret), ConnLine(300, "2.2.2.2", secret),
              ConnLine(600, "3.3.3.3", secret)>>
      [] c = "busy_three_ips" ->
            Hourly(secret, 19) \o <<ConnLine(19 * 3600, "2.2.2.2", secret),
                                    ConnLine(20 * 3600, "3.3.3.3", secret)>>
      [] c = "two_ips_together" ->
            <<ConnLine(0, "1.1.1.1", secret), ConnLine(0, "2.2.2.2", secret)>>
      [] c = "three_ips_together" ->
            <<ConnLine(0, "1.1.1.1", secret), ConnLine(0, "2.2.2.2", secret),
              ConnLine(0, "3.3.3.3", secret)>>

RECURSIVE ConcatCases(_)
ConcatCases(sel) ==
    IF sel = <<>> THEN <<>>
    ELSE CaseLines(Head(sel).secret, Head(sel).c) \o ConcatCases(Tail(sel))

\* One case per user, for up to MaxUsers distinct users, one user after another.
TierBatches ==
    {ConcatCases(sel) :
        sel \in {x \in UNION {[1..k -> [secret : {SecretAlice, SecretBob, SecretX},
                                        c : TierCases]] : k \in 1..MaxUsers} :
                    \A i \in 1..Len(x) : \A j \in 1..Len(x) :
                        x[i].secret = x[j].secret => i = j}}

ParseTierLines == ParseLogs(TierBatches, FALSE)

InitTiers == InitAnalyzer({ConfigTwoUsers}) /\ InitScore /\ InitOtherPrograms

NextTiers == ParseTierLines \/ AnalyzeSharingBehavior \/ PrintAnalysis

SpecTiers == InitTiers /\ [][NextTiers]_vars

----------------------------------------------------------------------------
(* The score on its own: calculate_suspicious_score called twice in a row *)

ScoreArgs ==
    [unique_ips : 0..MaxUniqueIps, simultaneous_ips : 0..MaxPairs,
     total_connections : 0..MaxTotal]

CalculateSuspiciousScore ==
    /\ sc_calls < 2
    /\ sc_calls' = sc_calls + 1
    /\ \E a \in ScoreArgs :
          /\ sc_args' = a
          /\ sc_score' = calculate_suspicious_score(
                 a.unique_ips, a.simultaneous_ips, a.total_connections)
    /\ sc_prev' = [args |-> sc_args, score |-> sc_score]
    /\ UNCHANGED <<analyzer_vars, monitor_vars, users_vars>>

InitOnlyScore == InitAnalyzer({ConfigTwoUsers}) /\ InitScore /\ InitOtherPrograms

NextScore == CalculateSuspiciousScore

SpecScore == InitOnlyScore /\ [][NextScore]_vars

----------------------------------------------------------------------------
(* monitor_continuous of monitor.py *)

InitPolling == InitAnalyzer({ConfigTwoUsers}) /\ InitScore /\ InitMonitor(QuietTurns)
               /\ InitUsers({ConfigOneUser})

NextPolling == GetConnectionStats

SpecMonitor == InitPolling /\ [][NextPolling]_vars

----------------------------------------------------------------------------
(* add_user and remove_user of manage_users.py, called in any order *)

InitManage == InitAnalyzer({ConfigTwoUsers}) /\ InitScore /\ InitMonitor({0})
              /\ InitUsers(Configs)

NextManage == AddUser \/ RemoveUser

SpecUsers == InitManage /\ [][NextManage]_vars

----------------------------------------------------------------------------
(* C1 *)

ClaimedBase(u, c, t) ==
    (IF u > 1 THEN u * 10 ELSE 0) + c * 50 + (IF t > 20 THEN (t - 20) * 2 ELSE 0)

ClaimedScore(u, c, t) == IF ClaimedBase(u, c, t) < 100 THEN ClaimedBase(u, c, t) ELSE 100

\* C1: for every triple of non-negative integers the returned score is
\* min(base, 100), base = (unique_ips * 10 if unique_ips > 1 else 0)
\* + concurrent_pairs * 50 + ((total - 20) * 2 if total > 20 else 0); 25 events
\* of one IP with no concurrent pair score 10, three mutually concurrent events
\* of three IPs score 100.
C1_ScoreFormula ==
    /\ sc_score = ClaimedScore(sc_args.unique_ips, sc_args.simultaneous_ips,
                               sc_args.total_connections)
    /\ (sc_args = [unique_ips |-> 1, simultaneous_ips |-> 0, total_connections |-> 25]
           => sc_score = 10)
    /\ (sc_args = [unique_ips |-> 3, simultaneous_ips |-> 3, total_connections |-> 3]
           => sc_score = 100)

C1_Witness ==
    /\ sc_args = [unique_ips |-> 3, simultaneous_ips |-> 3, total_connections |-> 3]
    /\ sc_score = 100
    /\ sc_prev.args = [unique_ips |-> 1, simultaneous_ips |-> 0, total_connections |-> 25]
    /\ sc_prev.score = 10

----------------------------------------------------------------------------
(* C3 *)

RaisedOneArgument(a, b) ==
    \/ /\ a.unique_ips < b.unique_ips
       /\ a.simultaneous_ips = b.simultaneous_ips
       /\ a.total_connections = b.total_connections
    \/ /\ a.unique_ips = b.unique_ips
       /\ a.simultaneous_ips < b.simultaneous_ips
       /\ a.total_connections = b.total_connections
    \/ /\ a.unique_ips = b.unique_ips
       /\ a.simultaneous_ips = b.simultaneous_ips
       /\ a.total_connections < b.total_connections

\* C3: raising unique_ips, concurrent_pairs or total_connections by any amount
\* with the other two held fixed never lowers the score.
C3_Monotone ==
    RaisedOneArgument(sc_prev.args, sc_args) => sc_prev.score <= sc_score

\* total_connections stepped from 20 to 21 with the rest fixed, and the score rose.
C3_Witness ==
    /\ sc_prev.args = [unique_ips |-> 1, simultaneous_ips |-> 1, total_connections |-> 20]
    /\ sc_args = [unique_ips |-> 1, simultaneous_ips |-> 1, total_connections |-> 21]
    /\ sc_prev.score = 50
    /\ sc_score = 52

----------------------------------------------------------------------------
(* Claims about the analysis of one run of main() *)

Analyzed == pc \in {"analyzed", "printed"}

EventsOf(name) ==
    IF HasKey(user_connections, name) THEN Get(user_connections, name) ELSE <<>>

Identities == {user_connections[i].key : i \in 1..Len(user_connections)}

\* C2: the suspicious score stored for any identity in the result of
\* analyze_sharing_behavior is an integer in [0, 100].
C2_ScoreInRange ==
    \A i \in 1..Len(sharing_analysis) :
        sharing_analysis[i].val.suspicious_score \in 0..100

\* The cap acted: three IPs and three concurrent pairs would give 180.
C2_Witness ==
    /\ Analyzed
    /\ \E i \in 1..Len(sharing_analysis) :
          /\ sharing_analysis[i].val.unique_ips = 3
          /\ sharing_analysis[i].val.simultaneous_different_ips = 3
          /\ sharing_analysis[i].val.suspicious_score = 100

\* Unordered pairs of events less than 300 seconds apart from different IPs.
ClaimedPairs(events) ==
    {pair \in SUBSET (1..Len(events)) :
        /\ Cardinality(pair) = 2
        /\ \E i \in pair : \E j \in pair :
              /\ i # j
              /\ events[i].ip # events[j].ip
              /\ events[i].timestamp - events[j].timestamp < 300
              /\ events[j].timestamp - events[i].timestamp < 300}

\* C4: for each identity, concurrent_pairs is the number of unordered pairs of
\* its events whose timestamps differ by strictly less than 300 seconds and
\* whose source IPs differ, each pair counted once.
C4_PairCount ==
    Analyzed =>
        \A i \in 1..Len(sharing_analysis) :
            sharing_analysis[i].val.simultaneous_different_ips =
                Cardinality(ClaimedPairs(EventsOf(sharing_analysis[i].key)))

\* Three events of three IPs: two are exactly 300 seconds apart and do not
\* count, the other two pairs do.
C4_BoundaryCase ==
    /\ Analyzed
    /\ \E i \in 1..Len(sharing_analysis) :
          LET ev == EventsOf(sharing_analysis[i].key)
          IN /\ Len(ev) = 3
             /\ sharing_analysis[i].val.unique_ips = 3
             /\ {ev[k].timestamp : k \in 1..3} = {0, 299, 300}
             /\ sharing_analysis[i].val.simultaneous_different_ips = 2

\* Three mutually near-simultaneous events of three IPs count as 3.
C4_Witness ==
    /\ Analyzed
    /\ \E i \in 1..Len(sharing_analysis) :
          LET ev == EventsOf(sharing_analysis[i].key)
          IN /\ Len(ev) = 3
             /\ sharing_analysis[i].val.unique_ips = 3
             /\ {ev[k].timestamp : k \in 1..3} = {0, 299}
             /\ sharing_analysis[i].val.simultaneous_different_ips = 3

C6_AsClaimed ==
    Analyzed =>
        \A i \in 1..Len(sharing_analysis) :
            LET r == sharing_analysis[i].val
                count == r.total_connections
                span == r.last_seen - r.first_seen
                avg == r.avg_connection_interval
            IN /\ avg.den > 0
               /\ IF count > 1 /\ span > 0
                  THEN avg.num * (count - 1) = span * avg.den
                  ELSE avg.num = 0

SameRational(a, b) == a.num * b.den = b.num * a.den

SameResult(r1, r2) ==
    /\ r1.total_connections = r2.total_connections
    /\ r1.unique_ips = r2.unique_ips
    /\ r1.simultaneous_different_ips = r2.simultaneous_different_ips
    /\ r1.first_seen = r2.first_seen
    /\ r1.last_seen = r2.last_seen
    /\ SameRational(r1.avg_connection_interval, r2.avg_connection_interval)
    /\ r1.suspicious_score = r2.suspicious_score

Permuted(lines, f) == [i \in 1..Len(lines) |-> lines[f[i]]]

AnalysisOfBatch(lines) ==
    AnalyzeAll(ParseAll(FreshAnalyzer, config_users, lines, now_read).user_connections)

\* C10: for any permutation of the same batch of events each identity gets the
\* same total_connections, unique_ips, concurrent_pairs, first_seen, last_seen,
\* avg_interval and score, and the output has one entry per identity.
C10_OrderIndependent ==
    pc = "analyzed" =>
        /\ \A i \in 1..Len(sharing_analysis) : \A j \in 1..Len(sharing_analysis) :
              sharing_analysis[i].key = sharing_analysis[j].key => i = j
        /\ \A f \in Permutations(1..Len(log_lines)) :
              \A other \in {AnalysisOfBatch(Permuted(log_lines, f))} :
                 /\ Len(other) = Len(sharing_analysis)
                 /\ \A i \in 1..Len(sharing_analysis) :
                       /\ HasKey(other, sharing_analysis[i].key)
                       /\ SameResult(Get(other, sharing_analysis[i].key),
                                     sharing_analysis[i].val)

\* Three events of one identity arrived out of time order, from different IPs.
C10_Witness ==
    /\ pc = "analyzed"
    /\ \E i \in 1..Len(sharing_analysis) :
          LET ev == EventsOf(sharing_analysis[i].key)
          IN /\ Len(ev) = 3
             /\ ev[1].timestamp > ev[2].timestamp
             /\ ev[3].timestamp > ev[1].timestamp
             /\ ev[1].ip # ev[2].ip
             /\ sharing_analysis[i].val.simultaneous_different_ips = 1
             /\ sharing_analysis[i].val.avg_connection_interval.num = 300

----------------------------------------------------------------------------
(* C7 *)

RowsWithRisk(tier) == {i \in 1..Len(printed.rows) : printed.rows[i].risk = tier}

\* C7: every identity in the analysis is put in exactly one tier by its score
\* (score > 30 HIGH, 10 < score <= 30 MEDIUM, score <= 10 LOW), the tier shown
\* for each identity agrees with the summary counts, and the three counts are
\* non-negative and sum to the number of identities.
C7_TierPartition ==
    (pc = "printed" /\ sharing_analysis # <<>>) =>
        /\ Len(printed.rows) = Len(sharing_analysis)
        /\ \A i \in 1..Len(sharing_analysis) :
              \E j \in 1..Len(printed.rows) :
                  /\ printed.rows[j].username = sharing_analysis[i].key
                  /\ printed.rows[j].suspicious_score =
                         sharing_analysis[i].val.suspicious_score
        /\ \A j \in 1..Len(printed.rows) :
              LET r == printed.rows[j]
              IN /\ r.risk \in {"HIGH", "MEDIUM", "LOW"}
                 /\ r.risk = "HIGH" <=> r.suspicious_score > 30
                 /\ r.risk = "MEDIUM" <=>
                        (r.suspicious_score > 10 /\ r.suspicious_score <= 30)
                 /\ r.risk = "LOW" <=> r.suspicious_score <= 10
        /\ Len(printed.summary) = 1
        /\ LET sm == printed.summary[1]
           IN /\ sm.high_risk = Cardinality(RowsWithRisk("HIGH"))
              /\ sm.medium_risk = Cardinality(RowsWithRisk("MEDIUM"))
              /\ sm.low_risk = Cardinality(RowsWithRisk("LOW"))
              /\ sm.high_risk >= 0 /\ sm.medium_risk >= 0 /\ sm.low_risk >= 0
              /\ sm.high_risk + sm.medium_risk + sm.low_risk = sm.total_users
              /\ sm.total_users = Len(sharing_analysis)

\* Scores 10, 30 and one above 30 printed together: LOW, MEDIUM, HIGH.
C7_Witness ==
    /\ pc = "printed"
    /\ \E i \in 1..Len(printed.rows) :
          printed.rows[i].suspicious_score = 10 /\ printed.rows[i].risk = "LOW"
    /\ \E i \in 1..Len(printed.rows) :
          printed.rows[i].suspicious_score = 30 /\ printed.rows[i].risk = "MEDIUM"
    /\ \E i \in 1..Len(printed.rows) : printed.rows[i].risk = "HIGH"
    /\ printed.summary[1].high_risk = 1
    /\ printed.summary[1].medium_risk = 1
    /\ printed.summary[1].low_risk = 1

----------------------------------------------------------------------------
(* C8 *)

ClaimedBefore(r1, r2) ==
    \/ r1.suspicious_score > r2.suspicious_score
    \/ /\ r1.suspicious_score = r2.suspicious_score
       /\ r1.total_connections > r2.total_connections
    \/ /\ r1.suspicious_score = r2.suspicious_score
       /\ r1.total_connections = r2.total_connections
       /\ NameRank(r1.username) < NameRank(r2.username)

LineIsOf(line, name) ==
    line.kind = "conn" /\ UsernameOf(config_users, line.secret) = name

\* Index in log_lines of the first event of the identity.
FirstSeenAt(name) ==
    CHOOSE i \in 1..Len(log_lines) :
        /\ LineIsOf(log_lines[i], name)
        /\ \A k \in 1..(i - 1) : ~LineIsOf(log_lines[k], name)

----------------------------------------------------------------------------
(* C9 *)

SameFour(r1, r2) ==
    /\ r1.total_connections = r2.total_connections
    /\ r1.unique_ips = r2.unique_ips
    /\ r1.simultaneous_different_ips = r2.simultaneous_different_ips
    /\ r1.suspicious_score = r2.suspicious_score

SameOutput(a1, a2) ==
    /\ \A i \in 1..Len(a1) :
          HasKey(a2, a1[i].key) /\ SameFour(a1[i].val, Get(a2, a1[i].key))
    /\ \A i \in 1..Len(a2) : HasKey(a1, a2[i].key)

AllLines == 
    LET RECURSIVE Flat(_)
        Flat(bs) == IF bs = <<>> THEN <<>> ELSE Head(bs) \o Flat(Tail(bs))
    IN Flat(prev_lines) \o log_lines

EventCount(name) ==
    Cardinality({i \in 1..Len(AllLines) : LineIsOf(AllLines[i], name)})

BatchCount(name) ==
    Cardinality({i \in 1..Len(log_lines) : LineIsOf(log_lines[i], name)})

----------------------------------------------------------------------------
(* C11 *)

TimestampsOf(name) == {EventsOf(name)[k].timestamp : k \in 1..Len(EventsOf(name))}

\* C11: every result of analyze_sharing_behavior has
\* 1 <= unique_ips <= total_connections,
\* 0 <= concurrent_pairs <= total_connections * (total_connections - 1) / 2 and
\* first_seen <= last_seen, first_seen and last_seen being the least and the
\* greatest timestamp of the identity's events.
C11_ResultInvariant ==
    Analyzed =>
        \A i \in 1..Len(sharing_analysis) :
            LET r == sharing_analysis[i].val
                stamps == TimestampsOf(sharing_analysis[i].key)
            IN /\ 1 <= r.unique_ips
               /\ r.unique_ips <= r.total_connections
               /\ 0 <= r.simultaneous_different_ips
               /\ 2 * r.simultaneous_different_ips
                      <= r.total_connections * (r.total_connections - 1)
               /\ r.first_seen <= r.last_seen
               /\ r.first_seen \in stamps
               /\ r.last_seen \in stamps
               /\ \A t \in stamps : r.first_seen <= t /\ t <= r.last_seen

\* Three events that arrived latest first, from two IPs, one concurrent pair.
C11_Witness ==
    /\ Analyzed
    /\ \E i \in 1..Len(sharing_analysis) :
          LET r == sharing_analysis[i].val
              ev == EventsOf(sharing_analysis[i].key)
          IN /\ r.total_connections = 3
             /\ r.unique_ips = 2
             /\ r.simultaneous_different_ips = 1
             /\ ev[1].timestamp = 300
             /\ ev[3].timestamp = 0
             /\ r.first_seen = 0
             /\ r.last_seen = 300

----------------------------------------------------------------------------
(* C12 *)

Configured(secret) == \E i \in 1..Len(config_users) : config_users[i][2] = secret

ClaimedPlaceholder(secret) ==
    CASE secret = SecretAlice -> "unknown_a1a1a1a1"
      [] secret = SecretBob -> "unknown_b2b2b2b2"
      [] secret = SecretX -> "unknown_c3c3c3c3"

UnknownEvents ==
    {i \in 1..Len(log_lines) :
        log_lines[i].kind = "conn" /\ ~Configured(log_lines[i].secret)}

SamePlaceholder(i) ==
    {j \in UnknownEvents : log_lines[j].secret.prefix = log_lines[i].secret.prefix}

----------------------------------------------------------------------------
(* C13 *)

----------------------------------------------------------------------------
(* C14 *)

UsernamesIn(content) ==
    {content.users[i].username : i \in 1..Len(content.users)}

\* C14 as claimed: after any add_user or remove_user call no username is twice
\* in the USERS section; add_user with a username that already exists, or that
\* has a character outside letters, digits, underscore and dash, returns False
\* and leaves the config unchanged; remove_user with a username that is not
\* present returns False and leaves the config unchanged.
C14_AsClaimed ==
    [][ /\ \A i, j \in 1..Len(config'.users) :
              config'.users[i].username = config'.users[j].username => i = j
        /\ ( /\ last_call'.op = "add_user"
             /\ calls' = calls + 1
             /\ \/ last_call'.username \in UsernamesIn(config)
                \/ \E k \in 1..Len(last_call'.username) :
                      last_call'.username[k] \notin {"a", "b"} )
           => (last_call'.result = FALSE /\ config' = config)
        /\ ( /\ last_call'.op = "remove_user"
             /\ calls' = calls + 1
             /\ last_call'.username \notin UsernamesIn(config) )
           => (last_call'.result = FALSE /\ config' = config)
      ]_vars

====
